---- MODULE Spec2Model ----
(***************************************************************************)
(* A model of pf_xarray/pf_backend.py: the ParFlow backend entrypoint      *)
(* (open_dataset, is_meta_or_pfb, load_single_pfb, load_pfb_from_meta,     *)
(* decode_coords) and the lazy backend array with its process-wide lock.   *)
(*                                                                         *)
(* The file as it stands does not compile: lines 215-242 repeat            *)
(* load_single_pfb inside ParflowBackendArray with a signature that lacks  *)
(* its colon (line 218), so importing the module raises SyntaxError and    *)
(* nothing of it can be called.  The model starts before the import and    *)
(* follows both the file as it stands and the file without that method,    *)
(* which is the one whose functions the rest of the model describes.       *)
(*                                                                         *)
(* Strings are sequences of one-character strings, so that split, join and *)
(* %-formatting are computed character by character.  A raised Python      *)
(* exception is a record [cls, msg].  A function result is a record with   *)
(* an ok flag, the exception when ok is FALSE and the value otherwise.     *)
(***************************************************************************)
EXTENDS Integers, Sequences, FiniteSets, TLC

VARIABLES
    module,     \* the module: "source", "imported", or the error of its import
    pc,         \* position of the caller inside open_dataset
    pf_meta,    \* the attribute self.pf_meta of the entrypoint object
    args,       \* arguments of the open_dataset call in progress
    disk,       \* the file system the call in progress reads
    filetype,   \* local variable filetype of open_dataset
    ds,         \* local variable ds of open_dataset
    k,          \* position of the loop over outputs / inputs
    result,     \* what the call handed to its caller
    attempts,   \* log: the load_pfb_from_meta calls of this open_dataset call
    metaRead,   \* log: the values read from self.pf_meta by this call
    stale,      \* log: the value of self.pf_meta when this call began
    acquired,   \* log: times this call took PARFLOW_LOCK (realizations at line 113)
    load,       \* the caller's load in progress: where it stands at the lock of line 210
    rIn,        \* resolver harness: the argument of load_pfb_from_meta
    rOut,       \* resolver harness: its outcome
    owner,      \* holder of PARFLOW_LOCK: a thread, the caller, or 0 when free
    tpc,        \* per thread: position inside __getitem__
    arr,        \* per thread: its ParflowBackendArray
    ioReads,    \* per thread: data reads made for its array since construction
    calls,      \* per thread: indexing calls completed on its array
    tres        \* per thread: value returned by the last indexing call

entryVars == <<pc, pf_meta, args, disk, filetype, ds, k, result, attempts, metaRead,
              stale, acquired, load>>
resolverVars == <<rIn, rOut>>
lockVars == <<owner, tpc, arr, ioReads, calls, tres>>
vars == <<module, pc, pf_meta, args, disk, filetype, ds, k, result, attempts, metaRead,
          stale, acquired, load, rIn, rOut, owner, tpc, arr, ioReads, calls, tres>>

(***************************************************************************)
(* Bounds of the model.                                                    *)
(***************************************************************************)
MaxCount == 2
MaxStop == 5
MaxStep == 2
NThreads == 2
MaxCalls == 1

(***************************************************************************)
(* Results and exceptions.                                                 *)
(***************************************************************************)
Exc(cls, msg) == [cls |-> cls, msg |-> msg]
NoExc == Exc("none", "")
Raise(cls, msg) == [ok |-> FALSE, err |-> Exc(cls, msg)]
Ok(v) == [ok |-> TRUE, err |-> NoExc, val |-> v]

(***************************************************************************)
(* Characters and strings.                                                 *)
(***************************************************************************)
DigitChars == <<"0", "1", "2", "3", "4", "5", "6", "7", "8", "9">>
DigitChar(d) == DigitChars[d + 1]
IsDigit(c) == \E d \in 0..9 : DigitChars[d + 1] = c
DigitVal(c) == CHOOSE d \in 0..9 : DigitChars[d + 1] = c

RECURSIVE DigitsOf(_)
\* decimal digits of n >= 0, most significant first
DigitsOf(n) == IF n < 10 THEN <<DigitChar(n)>>
               ELSE Append(DigitsOf(n \div 10), DigitChar(n % 10))

RECURSIVE ParseNatAcc(_, _, _)
ParseNatAcc(s, i, acc) == IF i > Len(s) THEN acc
                          ELSE ParseNatAcc(s, i + 1, 10 * acc + DigitVal(s[i]))
\* the number a digit string denotes (used by the file-system fixture and the claims)
ParseNat(s) == ParseNatAcc(s, 1, 0)
AllDigits(s) == Len(s) >= 1 /\ \A i \in 1..Len(s) : IsDigit(s[i])

\* c repeated n times (nothing when n <= 0)
Repeat(c, n) == [i \in 1..(IF n > 0 THEN n ELSE 0) |-> c]

RECURSIVE SplitAcc(_, _, _)
SplitAcc(s, i, cur) ==
    IF i > Len(s) THEN <<cur>>
    ELSE IF s[i] = "." THEN <<cur>> \o SplitAcc(s, i + 1, <<>>)
    ELSE SplitAcc(s, i + 1, Append(cur, s[i]))
\* str.split('.')
split_dot(s) == SplitAcc(s, 1, <<>>)

RECURSIVE join_dot(_)
\* '.'.join(segs)
join_dot(segs) ==
    IF Len(segs) = 0 THEN <<>>
    ELSE IF Len(segs) = 1 THEN segs[1]
    ELSE segs[1] \o <<".">> \o join_dot(Tail(segs))

\* seq[-2:]
last_two(segs) == IF Len(segs) <= 2 THEN segs
                  ELSE SubSeq(segs, Len(segs) - 1, Len(segs))
\* seq[:-2]
all_but_last_two(segs) == IF Len(segs) <= 2 THEN <<>>
                          ELSE SubSeq(segs, 1, Len(segs) - 2)

(***************************************************************************)
(* pad % n, line 135, for n an element of np.arange: a numpy integer       *)
(* scalar.  Such a scalar is no tuple and supports indexing, so Python's   *)
(* formatting takes it for the single argument and as a mapping: a pad     *)
(* without any conversion is returned as it is (no "not all arguments      *)
(* converted" error, which a Python int would get), a key in parentheses   *)
(* indexes the scalar and fails, and a * width finds no int.  str and repr *)
(* of the scalar are its decimal digits.                                   *)
(***************************************************************************)
FlagChars == {"-", "+", " ", "#", "0"}
DigitSet == {DigitChars[i] : i \in 1..10}
IntConversions == {"d", "i", "u"}
BaseConversions == {"x", "X", "o"}
FloatConversions == {"e", "E", "f", "F", "g", "G"}
StrConversions == {"s", "r", "a"}
HexLower == <<"0", "1", "2", "3", "4", "5", "6", "7", "8", "9",
              "a", "b", "c", "d", "e", "f">>
HexUpper == <<"0", "1", "2", "3", "4", "5", "6", "7", "8", "9",
              "A", "B", "C", "D", "E", "F">>
\* the characters of code points 32 to 95 and 97 to 126
AsciiLow == <<" ", "!", "\"", "#", "$", "%", "&", "'", "(", ")", "*", "+", ",", "-", ".",
              "/", "0", "1", "2", "3", "4", "5", "6", "7", "8", "9", ":", ";", "<", "=",
              ">", "?", "@", "A", "B", "C", "D", "E", "F", "G", "H", "I", "J", "K", "L",
              "M", "N", "O", "P", "Q", "R", "S", "T", "U", "V", "W", "X", "Y", "Z", "[",
              "\\", "]", "^", "_">>
AsciiHigh == <<"a", "b", "c", "d", "e", "f", "g", "h", "i", "j", "k", "l", "m", "n", "o",
               "p", "q", "r", "s", "t", "u", "v", "w", "x", "y", "z", "{", "|", "}", "~">>
\* chr(n); any other code point is written chr(<n>), as one element
chr(n) == IF n >= 32 /\ n <= 95 THEN AsciiLow[n - 31]
          ELSE IF n >= 97 /\ n <= 126 THEN AsciiHigh[n - 96]
          ELSE "chr(" \o ToString(n) \o ")"

Abs(n) == IF n < 0 THEN 0 - n ELSE n
Max(a, b) == IF a >= b THEN a ELSE b
RECURSIVE Pow10(_)
Pow10(e) == IF e <= 0 THEN 1 ELSE 10 * Pow10(e - 1)

RECURSIVE DigitsInBase(_, _, _)
\* digits of n >= 0 in the base Len(alphabet), most significant first
DigitsInBase(n, base, alphabet) ==
    IF n < base THEN <<alphabet[n + 1]>>
    ELSE Append(DigitsInBase(n \div base, base, alphabet), alphabet[(n % base) + 1])

RECURSIVE StripZeros(_)
\* trailing zeros removed
StripZeros(s) == IF Len(s) > 0 /\ s[Len(s)] = "0" THEN StripZeros(SubSeq(s, 1, Len(s) - 1))
                 ELSE s

RECURSIVE SkipWhile(_, _, _)
\* the first position from i on whose character is not in S (Len(s) + 1 when none)
SkipWhile(s, i, S) == IF i <= Len(s) /\ s[i] \in S THEN SkipWhile(s, i + 1, S) ELSE i

RECURSIVE KeyEnd(_, _, _)
\* the position of the parenthesis closing a mapping key, 0 when it is not closed
KeyEnd(s, i, depth) ==
    IF i > Len(s) THEN 0
    ELSE IF s[i] = ")" THEN (IF depth = 1 THEN i ELSE KeyEnd(s, i + 1, depth - 1))
    ELSE IF s[i] = "(" THEN KeyEnd(s, i + 1, depth + 1)
    ELSE KeyEnd(s, i + 1, depth)

\* a conversion specifier: flags, width and precision (-1 when not given), the
\* conversion character ch and the position after it
FormatArg(e, flags, width, prec, ch, next) ==
    [err |-> e, flags |-> flags, width |-> width, prec |-> prec, ch |-> ch, next |-> next]
BadArg(cls, msg) == FormatArg(Exc(cls, msg), {}, -1, -1, "", 0)

\* the specifier that starts at position i, right after a % sign; used tells
\* whether the argument is already taken (a * asks for one more, which must be an int)
ParseArg(s, i, used) ==
    IF i <= Len(s) /\ s[i] = "%" THEN FormatArg(NoExc, {}, -1, -1, "%", i + 1)
    ELSE IF i <= Len(s) /\ s[i] = "("
    THEN IF KeyEnd(s, i + 1, 1) = 0 THEN BadArg("ValueError", "incomplete format key")
         ELSE BadArg("IndexError", "invalid index to scalar variable.")
    ELSE LET f1 == SkipWhile(s, i, FlagChars)
             flags == {s[j] : j \in i..(f1 - 1)}
             w1 == SkipWhile(s, f1, DigitSet)
             width == IF w1 > f1 THEN ParseNat(SubSeq(s, f1, w1 - 1)) ELSE -1
             dot == w1 <= Len(s) /\ s[w1] = "."
             p1 == IF dot THEN SkipWhile(s, w1 + 1, DigitSet) ELSE w1
             prec == IF ~dot THEN -1
                     ELSE IF p1 > w1 + 1 THEN ParseNat(SubSeq(s, w1 + 1, p1 - 1)) ELSE 0
             m1 == IF p1 <= Len(s) /\ s[p1] \in {"h", "l", "L"} THEN p1 + 1 ELSE p1
             star == \/ f1 <= Len(s) /\ s[f1] = "*"
                     \/ dot /\ w1 + 1 <= Len(s) /\ s[w1 + 1] = "*"
         IN  IF star /\ used
             THEN BadArg("TypeError", "not enough arguments for format string")
             ELSE IF star THEN BadArg("TypeError", "* wants int")
             ELSE IF m1 > Len(s) THEN BadArg("ValueError", "incomplete format")
             ELSE FormatArg(NoExc, flags, width, prec, s[m1], m1 + 1)

\* the digits of n >= 0 rounded half-even to sig significant digits, and the
\* decimal exponent of the first of them
RoundSig(n, sig) ==
    LET digits == DigitsOf(n)
        len == Len(digits)
        drop == len - sig
    IN  IF n = 0 THEN [digits |-> Repeat("0", sig), exp |-> 0]
        ELSE IF drop <= 0 THEN [digits |-> digits \o Repeat("0", 0 - drop), exp |-> len - 1]
        ELSE LET q == n \div Pow10(drop)
                 r == n % Pow10(drop)
                 half == 5 * Pow10(drop - 1)
                 up == r > half \/ (r = half /\ q % 2 = 1)
                 q1 == IF up THEN q + 1 ELSE q
             IN  IF q1 = Pow10(sig) THEN [digits |-> DigitsOf(q1 \div 10), exp |-> len]
                 ELSE [digits |-> DigitsOf(q1), exp |-> len - 1]

\* the exponent part of the e and g conversions: sign and at least two digits
ExponentPart(letter, e) ==
    <<letter, "+">> \o (IF e < 10 THEN <<"0">> ELSE <<>>) \o DigitsOf(e)

\* n >= 0 as d.ddd e+XX with frac digits after the point
Scientific(n, frac, alt, letter, strip) ==
    LET r == RoundSig(n, frac + 1)
        tail == IF strip THEN StripZeros(Tail(r.digits)) ELSE Tail(r.digits)
    IN  <<r.digits[1]>>
        \o (IF Len(tail) > 0 THEN <<".">> \o tail ELSE IF alt THEN <<".">> ELSE <<>>)
        \o ExponentPart(letter, r.exp)

\* the conversions e, f and g of float(n) for n >= 0
FloatDigits(n, a) ==
    LET alt == "#" \in a.flags
        prec == IF a.prec < 0 THEN 6 ELSE a.prec
        letter == IF a.ch \in {"E", "G"} THEN "E" ELSE "e"
    IN  IF a.ch \in {"f", "F"}
        THEN DigitsOf(n) \o (IF prec > 0 THEN <<".">> \o Repeat("0", prec)
                             ELSE IF alt THEN <<".">> ELSE <<>>)
        ELSE IF a.ch \in {"e", "E"} THEN Scientific(n, prec, alt, letter, FALSE)
        ELSE LET sig == IF prec = 0 THEN 1 ELSE prec
                 r == RoundSig(n, sig)
             IN  IF r.exp < sig
                 THEN DigitsOf(n) \o (IF alt THEN <<".">> \o Repeat("0", sig - 1 - r.exp)
                                      ELSE <<>>)
                 ELSE Scientific(n, sig - 1, alt, letter, ~alt)

\* the text of the argument before padding: str, the integer in its base with the
\* digits padded to the precision, the float, or the character
ArgText(a, n) ==
    LET minus == IF n < 0 THEN <<"-">> ELSE <<>>
        zeros(d) == Repeat("0", a.prec - Len(d)) \o d
    IN  IF a.ch \in StrConversions THEN Ok(minus \o DigitsOf(Abs(n)))
        ELSE IF a.ch \in IntConversions THEN Ok(minus \o zeros(DigitsOf(Abs(n))))
        ELSE IF a.ch = "x"
        THEN Ok(minus \o (IF "#" \in a.flags THEN <<"0", "x">> ELSE <<>>)
                \o zeros(DigitsInBase(Abs(n), 16, HexLower)))
        ELSE IF a.ch = "X"
        THEN Ok(minus \o (IF "#" \in a.flags THEN <<"0", "X">> ELSE <<>>)
                \o zeros(DigitsInBase(Abs(n), 16, HexUpper)))
        ELSE IF a.ch = "o"
        THEN Ok(minus \o (IF "#" \in a.flags THEN <<"0", "o">> ELSE <<>>)
                \o zeros(DigitsInBase(Abs(n), 8, HexLower)))
        ELSE IF a.ch \in FloatConversions THEN Ok(minus \o FloatDigits(Abs(n), a))
        ELSE IF a.ch = "c"
        THEN IF n < 0 \/ n > 1114111
             THEN Raise("OverflowError", "%c arg not in range(0x110000)")
             ELSE Ok(<<chr(n)>>)
        ELSE Raise("ValueError", "unsupported format character")

\* sign, numeric prefix, fill and width applied to the text of the argument
PadArg(a, text) ==
    LET numeric == a.ch \in IntConversions \cup BaseConversions \cup FloatConversions
        fill == IF numeric /\ "0" \in a.flags THEN "0" ELSE " "
        cut == IF a.ch \in StrConversions /\ a.prec >= 0 /\ Len(text) > a.prec
               THEN SubSeq(text, 1, a.prec) ELSE text
        lead == numeric /\ Len(cut) > 0 /\ cut[1] \in {"-", "+"}
        sign == IF lead THEN <<cut[1]>>
                ELSE IF numeric /\ "+" \in a.flags THEN <<"+">>
                ELSE IF numeric /\ " " \in a.flags THEN <<" ">>
                ELSE <<>>
        body0 == IF lead THEN Tail(cut) ELSE cut
        width1 == Max(a.width, Len(body0))
        width2 == IF Len(sign) > 0 /\ width1 > Len(body0) THEN width1 - 1 ELSE width1
        alt == "#" \in a.flags /\ a.ch \in BaseConversions
        prefix == IF alt THEN SubSeq(body0, 1, 2) ELSE <<>>
        body == IF alt THEN SubSeq(body0, 3, Len(body0)) ELSE body0
        width3 == IF alt THEN Max(width2 - 2, 0) ELSE width2
        left == IF width3 > Len(body) /\ "-" \notin a.flags
                THEN Repeat(fill, width3 - Len(body)) ELSE <<>>
        right == IF width3 > Len(body) /\ "-" \in a.flags
                 THEN Repeat(" ", width3 - Len(body)) ELSE <<>>
    IN  IF fill = " " THEN left \o sign \o prefix \o body \o right
        ELSE sign \o prefix \o left \o body \o right

RECURSIVE FormatFrom(_, _, _, _)
\* the pad from position i on; used tells whether a conversion has taken the argument
FormatFrom(s, i, n, used) ==
    IF i > Len(s) THEN Ok(<<>>)
    ELSE IF s[i] # "%"
    THEN LET rest == FormatFrom(s, i + 1, n, used)
         IN  IF rest.ok THEN Ok(<<s[i]>> \o rest.val) ELSE rest
    ELSE LET a == ParseArg(s, i + 1, used)
         IN  IF a.err # NoExc THEN Raise(a.err.cls, a.err.msg)
             ELSE IF a.ch = "%" /\ a.next = i + 2
             THEN LET rest == FormatFrom(s, a.next, n, used)
                  IN  IF rest.ok THEN Ok(<<"%">> \o rest.val) ELSE rest
             ELSE IF used THEN Raise("TypeError", "not enough arguments for format string")
             ELSE LET text == ArgText(a, n)
                  IN  IF ~text.ok THEN text
                      ELSE LET rest == FormatFrom(s, a.next, n, TRUE)
                           IN  IF rest.ok THEN Ok(PadArg(a, text.val) \o rest.val)
                               ELSE rest

percent_format(pad, n) == FormatFrom(pad, 1, n, FALSE)

(***************************************************************************)
(* np.arange over the unpacked time-range, line 131: one to three integers.*)
(***************************************************************************)
np_arange(r) ==
    LET start == IF Len(r) >= 2 THEN r[1] ELSE 0
        stop == IF Len(r) >= 2 THEN r[2] ELSE r[1]
        step == IF Len(r) >= 3 THEN r[3] ELSE 1
    IN  IF step = 0 THEN Raise("ZeroDivisionError", "division by zero")
        ELSE LET n == IF step > 0 /\ stop > start
                         THEN (stop - start + step - 1) \div step
                      ELSE IF step < 0 /\ start > stop
                         THEN (start - stop - step - 1) \div (0 - step)
                      ELSE 0
             IN  Ok([i \in 1..n |-> start + (i - 1) * step])

(***************************************************************************)
(* The grid reader PFData (parflowio, outside this repository) as the      *)
(* entrypoint uses it, and the files it reads.  A file is a record with a  *)
(* kind: "pfb" (a grid with header hdr; dataOk tells whether loadData      *)
(* succeeds), "json" (a JSON object doc), "jsonlist" (a JSON document that *)
(* is not an object), "text" (neither) and "nofile" (no such path).        *)
(***************************************************************************)
AxisNames == {"x", "y", "z"}
Perms == {<<"x", "y", "z">>, <<"x", "z", "y">>, <<"y", "x", "z">>,
          <<"y", "z", "x">>, <<"z", "x", "y">>, <<"z", "y", "x">>}

Header(o, a, b, c, org) ==
    [order |-> o, nx |-> a, ny |-> b, nz |-> c,
     x0 |-> org, y0 |-> org + 10, z0 |-> org + 20, dx |-> 1, dy |-> 2, dz |-> 3]

\* PFData.loadHeader(): 0 on success
loadHeader(f) == IF f.kind = "pfb" THEN 0 ELSE 1
\* PFData.loadData(): 0 on success
loadData(f) == IF f.kind = "pfb" /\ f.dataOk THEN 0 ELSE 1
\* PFData.getIndexOrder()
getIndexOrder(f) == f.hdr.order
getCount(h, a) == CASE a = "x" -> h.nx [] a = "y" -> h.ny [] a = "z" -> h.nz
\* PFData.viewDataArray(): the samples in the file's index order (only the shape is kept)
viewDataArray(f) == [shape |-> [i \in 1..3 |-> getCount(f.hdr, f.hdr.order[i])]]

(***************************************************************************)
(* decode_coords, lines 142-165: origin + spacing * i for i in [0, count). *)
(***************************************************************************)
decode_coords(f) ==
    LET h == f.hdr
    IN  [a \in AxisNames |->
            CASE a = "x" -> [i \in 1..h.nx |-> h.dx * (i - 1) + h.x0]
              [] a = "y" -> [i \in 1..h.ny |-> h.dy * (i - 1) + h.y0]
              [] a = "z" -> [i \in 1..h.nz |-> h.dz * (i - 1) + h.z0]]

SeqRange(s) == {s[i] : i \in 1..Len(s)}

(***************************************************************************)
(* ParflowBackendArray.__init__, lines 183-197.  The file name argument is *)
(* accepted and not stored.                                                *)
(***************************************************************************)
BackendArrayInit_private(shape, lock) ==
    \* a lock of its own for every array instead of the module's one
    [shape |-> shape, dtype |-> "int64", built |-> lock,
     lock |-> IF lock \in {"True", "None"} THEN "OWN_LOCK"
              ELSE IF lock = "False" THEN "NO_LOCK" ELSE lock]

BackendArrayInit(shape, lock) ==
    [shape |-> shape, dtype |-> "int64", built |-> lock,
     lock |-> IF lock \in {"True", "None"} THEN "PARFLOW_LOCK"
              ELSE IF lock = "False" THEN "NO_LOCK" ELSE lock]

(***************************************************************************)
(* ParflowBackendArray._raw_indexing_method, lines 209-213: inside the     *)
(* with block the method returns None, whatever the array and the key.     *)
(* __getitem__, lines 199-207, hands the key to it through xarray's        *)
(* explicit_indexing_adapter and returns what it returned.                 *)
(***************************************************************************)
raw_indexing_method(a, key) == "None"
getitem(a, key) == raw_indexing_method(a, key)

(***************************************************************************)
(* Lines 111-112: indexing.LazilyIndexedArray(backend_array) and           *)
(* xr.Variable(dims, data).  Neither reads the array; the variable checks  *)
(* the number of dimensions against the declared shape.                    *)
(***************************************************************************)
LazilyIndexedArray(a) == [array |-> a, shape |-> a.shape]
Variable(dims, data) ==
    IF Len(dims) # Len(data.shape)
    THEN Raise("ValueError", "dimensions must have the same length as the number of data dimensions")
    ELSE Ok([dims |-> dims, data |-> data])

(***************************************************************************)
(* xr.DataArray(arr, coords=coords, dims=dims, name=name), line 114:       *)
(* xarray refuses a coordinate whose length differs from the size of its   *)
(* dimension.                                                              *)
(***************************************************************************)
DataArray(a, coords, dims, name) ==
    IF Len(dims) # Len(a.shape)
    THEN Raise("ValueError", "different number of dimensions on data and dims: "
                             \o ToString(Len(a.shape)) \o " vs " \o ToString(Len(dims)))
    ELSE IF \E i \in 1..Len(dims) :
                dims[i] \in DOMAIN coords /\ Len(coords[dims[i]]) # a.shape[i]
    THEN Raise("ValueError", "conflicting sizes for dimension")
    ELSE Ok([name |-> name, dims |-> dims, shape |-> a.shape, coords |-> coords,
             units |-> "unset", filled |-> FALSE])

(***************************************************************************)
(* xr.DataArray(var, coords=coords, name=name), line 113.  The data of the *)
(* variable is taken through Variable.data, which realizes a lazily        *)
(* indexed array: the whole array is asked of ParflowBackendArray          *)
(* (__getitem__ with a key of full slices, under the array's lock), and    *)
(* the None it returns becomes an array of no dimension, which cannot bear *)
(* the three dimensions of the variable.                                   *)
(***************************************************************************)
Realize(data) ==
    LET values == getitem(data.array, "all")
    IN  [shape |-> IF values = "None" THEN <<>> ELSE data.shape]

DataArrayFromVariable(var, coords, name) == DataArray(Realize(var.data), coords, var.dims, name)

(***************************************************************************)
(* load_single_pfb, lines 85-115, for the file f that PFData finds at the  *)
(* path (dims and coords are never passed by the callers of this module).  *)
(* The result also tells how many times the call took PARFLOW_LOCK         *)
(* (locked): once when line 113 is reached.                                *)
(***************************************************************************)
Locked(r, n) == IF r.ok THEN [ok |-> TRUE, err |-> r.err, val |-> r.val, locked |-> n]
                ELSE [ok |-> FALSE, err |-> r.err, locked |-> n]

load_single_pfb(f) ==
    IF loadHeader(f) # 0 THEN Locked(Raise("AssertionError", ""), 0)
    ELSE IF loadData(f) # 0 THEN Locked(Raise("AssertionError", ""), 0)
    ELSE LET a == viewDataArray(f)
             dims == getIndexOrder(f)
             coords == decode_coords(f)
         IN  IF ~(Len(dims) = Cardinality(DOMAIN coords)
                  /\ SeqRange(dims) = DOMAIN coords)
             THEN Locked(Raise("AssertionError", "Mismatch in dims and coord names on file"), 0)
             ELSE LET shape == <<Len(coords["x"]), Len(coords["y"]), Len(coords["z"])>>
                      backend_array == BackendArrayInit(shape, "None")
                      data == LazilyIndexedArray(backend_array)
                      var == Variable(dims, data)
                  IN  IF ~var.ok THEN Locked(var, 0)
                      ELSE LET lazy == DataArrayFromVariable(var.val, coords,
                                                             "parflow_variable")
                           IN  IF ~lazy.ok THEN Locked(lazy, 1)
                               ELSE Locked(DataArray(a, coords, dims, "parflow_variable"), 1)

(***************************************************************************)
(* xr.concat(arrays, dim='time') with xarray's defaults, line 136: the     *)
(* arrays are aligned by an outer join of their coordinates (the sorted    *)
(* union per axis; positions an array lacks are filled with NaN), brought  *)
(* to the dimension order of the first and stacked along a new leading     *)
(* axis.  An empty list raises ValueError.                                 *)
(***************************************************************************)
RECURSIVE SortedSeq(_)
SortedSeq(S) == IF S = {} THEN <<>>
                ELSE LET m == CHOOSE x \in S : \A y \in S : x <= y
                     IN  <<m>> \o SortedSeq(S \ {m})

xr_concat(das) ==
    IF Len(das) = 0
    THEN Raise("ValueError", "must supply at least one object to concatenate")
    ELSE LET joined == [a \in AxisNames |->
                          SortedSeq(UNION {SeqRange(das[i].coords[a]) : i \in 1..Len(das)})]
             dims == das[1].dims
         IN  Ok([name |-> das[1].name,
                 dims |-> <<"time">> \o dims,
                 shape |-> <<Len(das)>> \o [i \in 1..Len(dims) |-> Len(joined[dims[i]])],
                 coords |-> joined,
                 units |-> "unset",
                 filled |-> \E i \in 1..Len(das) : das[i].coords # joined])

(***************************************************************************)
(* The file system.  A disk d is a record: d.grid is the header of the     *)
(* grid files, d.doc the JSON object stored in meta.json, and d.vary says  *)
(* how the grid file of time index 1 of every file series differs from the *)
(* other timesteps.  A series <base>.<index>.pfb has a file per time index *)
(* below NFiles, its index zero-padded to the width its base uses.         *)
(***************************************************************************)
c_pfb == <<"p", "f", "b">>
c_field == <<"f", "i", "e", "l", "d">>
c_runout == <<"r", "u", "n", ".", "o", "u", "t">>
c_t == <<"t">>
n_grid == <<"g", "r", "i", "d", ".", "p", "f", "b">>
n_bad == <<"b", "a", "d", ".", "p", "f", "b">>
n_none == <<"n", "o", "n", "e", ".", "p", "f", "b">>
n_meta == <<"m", "e", "t", "a", ".", "j", "s", "o", "n">>
n_list == <<"l", "i", "s", "t", ".", "j", "s", "o", "n">>
n_text == <<"n", "o", "t", "e", "s", ".", "t", "x", "t">>

SeriesBases == {c_field, c_runout, c_t}
SeriesWidth(base) == IF base = c_field THEN 3 ELSE IF base = c_runout THEN 2 ELSE 1
NFiles == MaxStop
Varies == {"same", "wider", "shifted", "reordered", "missing", "corrupt"}

Reverse(s) == [i \in 1..Len(s) |-> s[Len(s) + 1 - i]]

SeriesFile(d, idx) ==
    IF idx # 1 \/ d.vary = "same" THEN [kind |-> "pfb", hdr |-> d.grid, dataOk |-> TRUE]
    ELSE CASE d.vary = "wider" ->
                [kind |-> "pfb", hdr |-> [d.grid EXCEPT !.nx = @ + 1], dataOk |-> TRUE]
           [] d.vary = "shifted" ->
                [kind |-> "pfb", hdr |-> [d.grid EXCEPT !.x0 = @ + 1], dataOk |-> TRUE]
           [] d.vary = "reordered" ->
                [kind |-> "pfb", hdr |-> [d.grid EXCEPT !.order = Reverse(@)],
                 dataOk |-> TRUE]
           [] d.vary = "corrupt" ->
                [kind |-> "pfb", hdr |-> d.grid, dataOk |-> FALSE]
           [] OTHER -> [kind |-> "nofile"]

ReadFile(d, name) ==
    IF name = n_grid THEN [kind |-> "pfb", hdr |-> d.grid, dataOk |-> TRUE]
    ELSE IF name = n_bad THEN [kind |-> "pfb", hdr |-> d.grid, dataOk |-> FALSE]
    ELSE IF name = n_meta THEN [kind |-> "json", doc |-> d.doc]
    ELSE IF name = n_list THEN [kind |-> "jsonlist"]
    ELSE IF name = n_text THEN [kind |-> "text"]
    ELSE LET segs == split_dot(name)
             n == Len(segs)
         IN  IF n >= 3 /\ segs[n] = c_pfb
                /\ join_dot(SubSeq(segs, 1, n - 2)) \in SeriesBases
                /\ AllDigits(segs[n - 1])
                /\ LET w == SeriesWidth(join_dot(SubSeq(segs, 1, n - 2)))
                       g == segs[n - 1]
                   IN  Len(g) >= w /\ (Len(g) > w => g[1] # "0")
                /\ ParseNat(segs[n - 1]) < NFiles
             THEN SeriesFile(d, ParseNat(segs[n - 1]))
             ELSE [kind |-> "nofile"]

(***************************************************************************)
(* Manifests.  A manifest (a dict) is a record: keys is the set of its     *)
(* top-level keys, build tells what the "parflow" block holds ("absent":   *)
(* no "build" entry, "noversion": a "build" entry without "version", else  *)
(* the version), outputs and inputs are the entries of those groups in     *)
(* the dict's order.  A variable descriptor var_meta is a record: type     *)
(* ("absent" when the key is missing), tv (the "time-varying" entry:       *)
(* "true", "false" or "absent"), range and series (the "time-range" and    *)
(* "file-series" of data[0]) and units ("absent" when missing).            *)
(***************************************************************************)
\* the template <base>.<pad>.<suffix> written out; width 0 stands for %d
PadToken(w) == IF w = 0 THEN <<"%", "d">> ELSE <<"%", "0", DigitChar(w), "d">>
Template(base, w, suffix) == base \o <<".">> \o PadToken(w) \o <<".">> \o suffix

VarMeta(type, tv, range, series, units) ==
    [type |-> type, tv |-> tv, range |-> range, series |-> series, units |-> units]

(***************************************************************************)
(* load_pfb_from_meta, lines 117-140, on disk d.  Besides the outcome the  *)
(* result carries all_files (files), the files load_single_pfb was called  *)
(* on, in call order (opened), the number of times PARFLOW_LOCK was taken  *)
(* (locked), and the step that raised (stage; "concat" is xr.concat).      *)
(***************************************************************************)
FirstBad(rs) == CHOOSE j \in 1..Len(rs) : ~rs[j].ok /\ \A i \in 1..(j - 1) : rs[i].ok
Failed(e, files, opened, locked, stage) ==
    [ok |-> FALSE, err |-> e, files |-> files, opened |-> opened, locked |-> locked,
     stage |-> stage]
RECURSIVE SumLocked(_, _)
SumLocked(rs, n) == IF n = 0 THEN 0 ELSE rs[n].locked + SumLocked(rs, n - 1)

\* lines 137-138: the concatenated array c with its units, or the error of xr.concat
xr_concat_units(var_meta, all_files, locked, c) ==
    IF ~c.ok THEN Failed(c.err, all_files, all_files, locked, "concat")
    ELSE [ok |-> TRUE, err |-> NoExc,
          val |-> [c.val EXCEPT !.units = IF var_meta.units = "absent"
                                          THEN "not_specified" ELSE var_meta.units],
          files |-> all_files, opened |-> all_files, locked |-> locked,
          stage |-> "return"]

\* lines 136-138: the arrays das loaded from all_files are concatenated and the
\* units recorded; the comprehension of line 136 stops at the first file that fails
concat_series(var_meta, all_files, das) ==
    IF \E i \in 1..Len(das) : ~das[i].ok
    THEN Failed(das[FirstBad(das)].err, all_files, SubSeq(all_files, 1, FirstBad(das)),
                SumLocked(das, FirstBad(das)), "load")
    ELSE xr_concat_units(var_meta, all_files, SumLocked(das, Len(das)),
                         xr_concat([i \in 1..Len(das) |-> das[i].val]))

\* line 136: load_single_pfb on every name of all_files, in order
open_series(d, var_meta, all_files) ==
    concat_series(var_meta, all_files,
                  [i \in 1..Len(all_files) |-> load_single_pfb(ReadFile(d, all_files[i]))])

\* line 135: the names built from the rendered indices fs
name_series(d, var_meta, basepath, fmt, fs) ==
    IF \E i \in 1..Len(fs) : ~fs[i].ok
    THEN Failed(fs[FirstBad(fs)].err, <<>>, <<>>, 0, "format")
    ELSE open_series(d, var_meta,
                     [i \in 1..Len(fs) |-> basepath \o <<".">> \o fs[i].val \o <<".">> \o fmt])

\* lines 132-135: the template split at its dots and pad % n for every index
format_series(d, var_meta, idx, segs) ==
    IF Len(last_two(segs)) # 2
    THEN Failed(Exc("ValueError", "not enough values to unpack"), <<>>, <<>>, 0, "split")
    ELSE name_series(d, var_meta, join_dot(all_but_last_two(segs)), last_two(segs)[2],
                     [i \in 1..Len(idx) |-> percent_format(last_two(segs)[1], idx[i])])

\* lines 131-138: the time-varying branch
load_series(d, var_meta) ==
    LET time_idx == np_arange(var_meta["range"])
    IN  IF ~time_idx.ok THEN Failed(time_idx.err, <<>>, <<>>, 0, "arange")
        ELSE format_series(d, var_meta, time_idx.val, split_dot(var_meta.series))

EmptyArray == [name |-> "parflow_variable", dims |-> <<>>, shape |-> <<>>,
               coords |-> [a \in AxisNames |-> <<>>], units |-> "unset", filled |-> FALSE]

load_pfb_from_meta_lenient(d, var_meta) ==
    \* an entry that is not time-varying yields an empty array instead of an error
    IF var_meta.type = "absent" THEN Failed(Exc("KeyError", "type"), <<>>, <<>>, 0, "type")
    ELSE IF var_meta.type # "pfb"
    THEN Failed(Exc("AssertionError", "Can't load non-pfb data!"), <<>>, <<>>, 0, "type")
    ELSE IF var_meta.tv = "true" THEN load_series(d, var_meta)
    ELSE [ok |-> TRUE, err |-> NoExc, val |-> EmptyArray, files |-> <<>>, opened |-> <<>>,
          locked |-> 0, stage |-> "return"]

load_pfb_from_meta(d, var_meta) ==
    IF var_meta.type = "absent" THEN Failed(Exc("KeyError", "type"), <<>>, <<>>, 0, "type")
    ELSE IF var_meta.type # "pfb"
    THEN Failed(Exc("AssertionError", "Can't load non-pfb data!"), <<>>, <<>>, 0, "type")
    ELSE IF var_meta.tv = "true" THEN load_series(d, var_meta)
    ELSE Failed(Exc("NotImplementedError",
                    "Currently only support for reading time-varying data!"), <<>>, <<>>,
                0, "time-varying")

(***************************************************************************)
(* is_meta_or_pfb, lines 49-75.  A source is a record of kind "str" (with  *)
(* its path), "dict" (with the mapping meta) or "other".  The result tells *)
(* whether self.pf_meta was assigned (sets) and to what (meta).            *)
(***************************************************************************)
NoMeta == [keys |-> {}, build |-> "absent", outputs |-> <<>>, inputs |-> <<>>]
Classified(v, sets, m) == [ok |-> TRUE, err |-> NoExc, val |-> v, sets |-> sets, meta |-> m]
NotClassified(e) == [ok |-> FALSE, err |-> e, val |-> "none", sets |-> FALSE, meta |-> NoMeta]

\* _check_dict_is_valid_meta, lines 51-54
check_dict_is_valid_meta(meta) == "parflow" \in meta.keys
MissingKey == Exc("AssertionError", "Metadata file missing \"parflow\" key")

is_meta_or_pfb_nostore(src, d) ==
    \* a mapping classified without being stored on the entrypoint
    IF src.kind = "str"
    THEN LET f == ReadFile(d, src.path)
         IN  IF loadHeader(f) = 0 /\ loadData(f) = 0 THEN Classified("pfb", FALSE, NoMeta)
             ELSE IF f.kind = "nofile"
             THEN NotClassified(Exc("FileNotFoundError", "No such file or directory"))
             ELSE IF f.kind = "jsonlist"
             THEN NotClassified(Exc("AttributeError", "'list' object has no attribute 'keys'"))
             ELSE IF f.kind # "json"
             THEN NotClassified(Exc("ValueError", "not a JSON document"))
             ELSE IF ~check_dict_is_valid_meta(f.doc) THEN NotClassified(MissingKey)
             ELSE Classified("pfmetadata", TRUE, f.doc)
    ELSE IF src.kind = "dict"
    THEN IF ~check_dict_is_valid_meta(src.meta) THEN NotClassified(MissingKey)
         ELSE Classified("pfmetadata", FALSE, NoMeta)
    ELSE NotClassified(Exc("NotImplementedError", "Was unable to determine input type!"))

is_meta_or_pfb_headeronly(src, d) ==
    \* the status of loadData left unchecked
    IF src.kind = "str"
    THEN LET f == ReadFile(d, src.path)
         IN  IF loadHeader(f) = 0 THEN Classified("pfb", FALSE, NoMeta)
             ELSE IF f.kind = "nofile"
             THEN NotClassified(Exc("FileNotFoundError", "No such file or directory"))
             ELSE IF f.kind = "jsonlist"
             THEN NotClassified(Exc("AttributeError", "'list' object has no attribute 'keys'"))
             ELSE IF f.kind # "json"
             THEN NotClassified(Exc("ValueError", "not a JSON document"))
             ELSE IF ~check_dict_is_valid_meta(f.doc) THEN NotClassified(MissingKey)
             ELSE Classified("pfmetadata", TRUE, f.doc)
    ELSE IF src.kind = "dict"
    THEN IF ~check_dict_is_valid_meta(src.meta) THEN NotClassified(MissingKey)
         ELSE Classified("pfmetadata", TRUE, src.meta)
    ELSE NotClassified(Exc("NotImplementedError", "Was unable to determine input type!"))

is_meta_or_pfb(src, d) ==
    IF src.kind = "str"
    THEN LET f == ReadFile(d, src.path)
         IN  IF loadHeader(f) = 0 /\ loadData(f) = 0 THEN Classified("pfb", FALSE, NoMeta)
             ELSE IF f.kind = "nofile"
             THEN NotClassified(Exc("FileNotFoundError", "No such file or directory"))
             ELSE IF f.kind = "jsonlist"
             THEN NotClassified(Exc("AttributeError", "'list' object has no attribute 'keys'"))
             ELSE IF f.kind # "json"
             THEN NotClassified(Exc("ValueError", "not a JSON document"))
             ELSE IF ~check_dict_is_valid_meta(f.doc) THEN NotClassified(MissingKey)
             ELSE Classified("pfmetadata", TRUE, f.doc)
    ELSE IF src.kind = "dict"
    THEN IF ~check_dict_is_valid_meta(src.meta) THEN NotClassified(MissingKey)
         ELSE Classified("pfmetadata", TRUE, src.meta)
    ELSE NotClassified(Exc("NotImplementedError", "Was unable to determine input type!"))

(***************************************************************************)
(* Inputs of open_dataset: grids, manifests, sources, options and disks.   *)
(***************************************************************************)
Grids == {Header(o, a, b, c, 0) : o \in Perms, a \in 1..MaxCount,
                                  b \in 1..MaxCount, c \in 1..MaxCount}
BaseGrid == Header(<<"z", "y", "x">>, 2, 1, 1, 0)
Disk(g, v, m) == [grid |-> g, vary |-> v, doc |-> m]

Entry(name, var_meta) == [name |-> name, meta |-> var_meta]
V_press == VarMeta("pfb", "true", <<0, 3, 1>>, Template(c_field, 3, c_pfb), "m")
V_satur == VarMeta("pfb", "true", <<0, 2>>, Template(c_runout, 2, c_pfb), "absent")
V_satur0 == VarMeta("pfb", "true", <<1>>, Template(c_runout, 2, c_pfb), "absent")
V_first == VarMeta("pfb", "true", <<1>>, Template(c_t, 0, c_pfb), "absent")
V_mask == VarMeta("pfb", "false", <<>>, <<>>, "absent")
V_slope == VarMeta("pfb", "absent", <<>>, <<>>, "absent")
V_dem == VarMeta("tif", "false", <<>>, <<>>, "absent")
V_clm == VarMeta("clm", "true", <<0, 2>>, Template(c_t, 0, c_pfb), "absent")
V_config == VarMeta("pfidb", "absent", <<>>, <<>>, "absent")

AllKeys == {"parflow", "outputs", "inputs"}
Manifest(keys, build, outs, ins) ==
    [keys |-> keys, build |-> build, outputs |-> outs, inputs |-> ins]
Manifests == {
    Manifest(AllKeys, "3.6.0", <<Entry("press", V_press)>>,
             <<Entry("configuration", V_config)>>),
    Manifest(AllKeys, "3.6.0",
             <<Entry("first", V_first), Entry("satur", V_satur0), Entry("press", V_press)>>,
             <<Entry("configuration", V_config), Entry("perm", V_first)>>),
    Manifest(AllKeys, "3.9.0", <<Entry("press", V_press), Entry("mask", V_mask)>>, <<>>),
    Manifest(AllKeys, "3.6.0", <<Entry("mask", V_mask), Entry("press", V_press)>>,
             <<Entry("configuration", V_config)>>),
    Manifest(AllKeys, "3.6.0", <<Entry("first", V_first), Entry("dem", V_dem)>>, <<>>),
    Manifest(AllKeys, "3.6.0", <<Entry("clm", V_clm), Entry("slope", V_slope)>>, <<>>),
    Manifest({"outputs", "inputs"}, "absent", <<Entry("press", V_press)>>,
             <<Entry("configuration", V_config)>>),
    Manifest(AllKeys, "absent", <<Entry("press", V_press)>>, <<>>),
    Manifest(AllKeys, "noversion", <<Entry("mask", V_mask)>>, <<>>),
    Manifest({"parflow", "inputs"}, "3.6.0", <<>>,
             <<Entry("configuration", V_config), Entry("perm", V_first)>>),
    Manifest(AllKeys, "3.6.0", <<Entry("first", V_first)>>,
             <<Entry("configuration", V_config), Entry("slope", V_slope)>>),
    Manifest({"parflow", "outputs"}, "3.6.0", <<Entry("first", V_first)>>, <<>>),
    Manifest(AllKeys, "3.6.0", <<>>, <<Entry("configuration", V_config)>>),
    Manifest(AllKeys, "3.6.0", <<Entry("mask", V_mask)>>, <<>>),
    Manifest(AllKeys, "3.6.0", <<Entry("dem", V_dem), Entry("press", V_press)>>, <<>>)}

StrSource(p) == [kind |-> "str", path |-> p, meta |-> NoMeta]
DictSource(m) == [kind |-> "dict", path |-> <<>>, meta |-> m]
OtherSource == [kind |-> "other", path |-> <<>>, meta |-> NoMeta]
Sources == {StrSource(p) : p \in {n_grid, n_bad, n_none, n_meta, n_list, n_text}}
           \cup {DictSource(m) : m \in Manifests} \cup {OtherSource}
Options == [read_inputs : BOOLEAN, read_outputs : BOOLEAN, meta_yaml : BOOLEAN]
\* read_inputs=False, read_outputs=True, meta_yaml=False (line 22)
DefaultOptions == [read_inputs |-> FALSE, read_outputs |-> TRUE, meta_yaml |-> FALSE]
CallVaries == {"same", "wider", "missing"}

\* the disks on which a call with this source is tried
DisksFor(src) ==
    IF src.kind = "str" /\ src.path = n_grid THEN {Disk(g, "same", NoMeta) : g \in Grids}
    ELSE IF src.kind = "str" /\ src.path = n_meta
    THEN {Disk(BaseGrid, v, m) : v \in CallVaries, m \in Manifests}
    ELSE IF src.kind = "dict" THEN {Disk(BaseGrid, v, NoMeta) : v \in CallVaries}
    ELSE {Disk(BaseGrid, "same", NoMeta)}

(***************************************************************************)
(* The dataset under construction: its attribute parflow_version and its   *)
(* variables, in insertion order.                                          *)
(***************************************************************************)
NoDS == [attrs |-> "none", vars |-> <<>>]
NoResult == [status |-> "none", err |-> NoExc, ds |-> NoDS]
Raised(e) == [status |-> "raise", err |-> e, ds |-> NoDS]
Returned(d) == [status |-> "ok", err |-> NoExc, ds |-> d]
NoArgs == [src |-> OtherSource, read_inputs |-> FALSE, read_outputs |-> FALSE,
           meta_yaml |-> FALSE]
NoDisk == Disk(BaseGrid, "same", NoMeta)
Unset == [set |-> FALSE, meta |-> NoMeta]

\* da.to_dataset(), line 31
to_dataset(da) == [attrs |-> "none", vars |-> <<[name |-> da.name, da |-> da]>>]
\* ds[var] = da, lines 37 and 42
SetVar(d, name, da) ==
    IF \E i \in 1..Len(d.vars) : d.vars[i].name = name
    THEN [d EXCEPT !.vars = [i \in 1..Len(d.vars) |->
              IF d.vars[i].name = name THEN [name |-> name, da |-> da] ELSE d.vars[i]]]
    ELSE [d EXCEPT !.vars = Append(@, [name |-> name, da |-> da])]
VarNames(d) == {d.vars[i].name : i \in 1..Len(d.vars)}

\* self.pf_meta['parflow']['build']['version'], line 34
GetVersion(pm) ==
    IF ~pm.set THEN Raise("AttributeError", "object has no attribute 'pf_meta'")
    ELSE IF "parflow" \notin pm.meta.keys THEN Raise("KeyError", "parflow")
    ELSE IF pm.meta.build = "absent" THEN Raise("KeyError", "build")
    ELSE IF pm.meta.build = "noversion" THEN Raise("KeyError", "version")
    ELSE Ok(pm.meta.build)

\* self.pf_meta[group], lines 36 and 39
GetGroup(pm, group) ==
    IF ~pm.set THEN Raise("AttributeError", "object has no attribute 'pf_meta'")
    ELSE IF group \notin pm.meta.keys THEN Raise("KeyError", group)
    ELSE Ok(IF group = "outputs" THEN pm.meta.outputs ELSE pm.meta.inputs)

Fail(e) ==
    /\ pc' = "done"
    /\ result' = Raised(e)

(***************************************************************************)
(* import pf_xarray.pf_backend.  The file as it stands ("as_shipped")      *)
(* fails to compile at line 218; with the second load_single_pfb of lines  *)
(* 215-242 taken out ("method_removed") the import runs lines 1-13 and     *)
(* defines the classes.                                                    *)
(***************************************************************************)
Builds == {"as_shipped", "method_removed"}
Imported == module = "imported"

ImportModule(b) ==
    /\ module = "source"
    /\ module' = IF b = "as_shipped" THEN "SyntaxError" ELSE "imported"
    /\ UNCHANGED <<entryVars, resolverVars, lockVars>>

(***************************************************************************)
(* open_dataset, lines 17-47, step by step.                                *)
(***************************************************************************)
\* line 28: filetype = self.is_meta_or_pfb(filename_or_obj)
Call(src, opts, d) ==
    /\ Imported
    /\ pc = "idle" /\ load.phase = "none"
    /\ LET c == is_meta_or_pfb(src, d)
       IN  /\ pf_meta' = IF c.sets THEN [set |-> TRUE, meta |-> c.meta] ELSE pf_meta
           /\ filetype' = c.val
           /\ IF c.ok THEN pc' = "classified" /\ result' = NoResult
              ELSE Fail(c.err)
    /\ args' = [src |-> src, read_inputs |-> opts.read_inputs,
                read_outputs |-> opts.read_outputs, meta_yaml |-> opts.meta_yaml]
    /\ disk' = d
    /\ ds' = NoDS
    /\ k' = 0
    /\ attempts' = <<>>
    /\ metaRead' = <<>>
    /\ stale' = pf_meta
    /\ acquired' = 0
    /\ UNCHANGED <<module, load, resolverVars, lockVars>>

(***************************************************************************)
(* A load (load_single_pfb at line 30, load_pfb_from_meta at lines 37 and  *)
(* 42, or load_pfb_from_meta called on its own) runs on the caller's       *)
(* thread.  Each time it reaches line 113 with a file read, xarray         *)
(* realizes the lazy array through __getitem__, and the call enters        *)
(* "with self.lock" at line 210: it waits until PARFLOW_LOCK is free,      *)
(* holds it through lines 211-213 and releases it on leaving the block.    *)
(* What the load does between two such points is one step.  Its outcome    *)
(* depends on its arguments and the disk alone, which the call does not    *)
(* change, and tells how many times the lock is taken (locked) and which   *)
(* files were opened; load.taken counts the times taken so far.            *)
(***************************************************************************)
Caller == NThreads + 1
NoLoad == [phase |-> "none", caller |-> "none", taken |-> 0]

\* line 31: ds = da.to_dataset(), or the exception of load_single_pfb goes up
StoreGrid(r) ==
    /\ IF r.ok THEN pc' = "finish" /\ ds' = to_dataset(r.val) /\ UNCHANGED result
       ELSE Fail(r.err) /\ UNCHANGED ds
    /\ UNCHANGED <<k, attempts, rOut>>

StoreOutput_skip(r) ==
    \* a variable that fails to resolve is left out and the loop goes on
    /\ LET e == pf_meta.meta.outputs[k]
       IN  /\ attempts' = Append(attempts, [name |-> e.name, ok |-> r.ok, err |-> r.err])
           /\ ds' = IF r.ok THEN SetVar(ds, e.name, r.val) ELSE ds
           /\ k' = k + 1 /\ UNCHANGED <<pc, result>>
    /\ UNCHANGED rOut

\* line 37: ds[var] = <the array>, or the exception of load_pfb_from_meta goes up
StoreOutput(r) ==
    /\ LET e == pf_meta.meta.outputs[k]
       IN  /\ attempts' = Append(attempts, [name |-> e.name, ok |-> r.ok, err |-> r.err])
           /\ IF r.ok THEN ds' = SetVar(ds, e.name, r.val) /\ k' = k + 1
                           /\ UNCHANGED <<pc, result>>
              ELSE Fail(r.err) /\ UNCHANGED <<ds, k>>
    /\ UNCHANGED rOut

\* line 42: the same for an input
StoreInput(r) ==
    /\ LET e == pf_meta.meta.inputs[k]
       IN  /\ attempts' = Append(attempts, [name |-> e.name, ok |-> r.ok, err |-> r.err])
           /\ IF r.ok THEN ds' = SetVar(ds, e.name, r.val) /\ k' = k + 1
                           /\ UNCHANGED <<pc, result>>
              ELSE Fail(r.err) /\ UNCHANGED <<ds, k>>
    /\ UNCHANGED rOut

\* load_pfb_from_meta called on its own hands its outcome to its caller
StoreResolved(r) ==
    /\ rOut' = [done |-> TRUE, r |-> r]
    /\ UNCHANGED <<pc, ds, k, result, attempts>>

\* the load of caller c ends with outcome r
Deliver(c, r) ==
    IF c = "grid" THEN StoreGrid(r)
    ELSE IF c = "outputs" THEN StoreOutput(r)
    ELSE IF c = "inputs" THEN StoreInput(r)
    ELSE StoreResolved(r)

\* the load of caller c starts: it runs to its end when it never reaches line 113,
\* and otherwise until it stands at line 210 for the first time
Begin(c, r) ==
    IF r.locked = 0
    THEN Deliver(c, r) /\ UNCHANGED <<load, acquired>>
    ELSE /\ load' = [phase |-> "wait", caller |-> c, taken |-> 0]
         /\ UNCHANGED <<pc, ds, k, result, attempts, rOut, acquired>>

\* the outcome of the load in progress
LoadOutcome ==
    IF load.caller = "grid" THEN load_single_pfb(ReadFile(disk, args.src.path))
    ELSE IF load.caller = "outputs"
    THEN load_pfb_from_meta(disk, pf_meta.meta.outputs[k].meta)
    ELSE IF load.caller = "inputs"
    THEN load_pfb_from_meta(disk, pf_meta.meta.inputs[k].meta)
    ELSE load_pfb_from_meta(rIn.disk, rIn.meta)

\* the files the load in progress has opened when it stands at line 210
OpenedSoFar ==
    IF load.caller = "grid" THEN <<args.src.path>>
    ELSE SubSeq(LoadOutcome.opened, 1,
                IF load.phase = "wait" THEN load.taken + 1 ELSE load.taken)

\* line 210 on the caller's thread: with self.lock, entered when the lock is free
AcquireLock ==
    /\ Imported
    /\ load.phase = "wait"
    /\ owner = 0
    /\ owner' = Caller
    /\ load' = [load EXCEPT !.phase = "inside", !.taken = @ + 1]
    /\ acquired' = acquired + 1
    /\ UNCHANGED <<module, pc, pf_meta, args, disk, filetype, ds, k, result, attempts,
                   metaRead, stale, resolverVars, tpc, arr, ioReads, calls, tres>>

\* lines 211-213 and the exit of the with block: None is returned, the lock is
\* released, and the load goes on from line 113 to its end or to line 210 again
ReleaseLock ==
    /\ Imported
    /\ load.phase = "inside"
    /\ owner' = 0
    /\ \E r \in {LoadOutcome} :
           IF load.taken < r.locked
           THEN /\ load' = [load EXCEPT !.phase = "wait"]
                /\ UNCHANGED <<pc, ds, k, result, attempts, rOut>>
           ELSE load' = NoLoad /\ Deliver(load.caller, r)
    /\ UNCHANGED <<module, pf_meta, args, disk, filetype, metaRead, stale, acquired, rIn,
                   tpc, arr, ioReads, calls, tres>>

\* lines 29-31: the single grid branch
LoadGrid ==
    /\ Imported
    /\ pc = "classified" /\ filetype = "pfb" /\ load.phase = "none"
    /\ \E r \in {load_single_pfb(ReadFile(disk, args.src.path))} : Begin("grid", r)
    /\ UNCHANGED <<module, pf_meta, args, disk, filetype, metaRead, stale, rIn, lockVars>>

\* lines 32-34: the manifest branch, the empty dataset and its version attribute
ReadVersion_late ==
    \* the version read skipped: a missing entry goes unnoticed here
    /\ Imported
    /\ pc = "classified" /\ filetype = "pfmetadata"
    /\ metaRead' = metaRead
    /\ pc' = "outputs" /\ ds' = [attrs |-> "none", vars |-> <<>>] /\ UNCHANGED result
    /\ UNCHANGED <<module, pf_meta, args, disk, filetype, k, attempts, stale, acquired,
                   load, resolverVars, lockVars>>

ReadVersion ==
    /\ Imported
    /\ pc = "classified" /\ filetype = "pfmetadata"
    /\ metaRead' = Append(metaRead, pf_meta)
    /\ LET r == GetVersion(pf_meta)
       IN  IF r.ok THEN pc' = "outputs" /\ ds' = [attrs |-> r.val, vars |-> <<>>]
                        /\ UNCHANGED result
           ELSE Fail(r.err) /\ UNCHANGED ds
    /\ UNCHANGED <<module, pf_meta, args, disk, filetype, k, attempts, stale, acquired,
                   load, resolverVars, lockVars>>

\* lines 35-36: if read_outputs, the loop over self.pf_meta['outputs'] starts
EnterOutputs ==
    /\ Imported
    /\ pc = "outputs"
    /\ IF ~args.read_outputs
       THEN pc' = "inputs" /\ UNCHANGED <<result, k, metaRead>>
       ELSE /\ metaRead' = Append(metaRead, pf_meta)
            /\ LET g == GetGroup(pf_meta, "outputs")
               IN  IF g.ok THEN pc' = "outloop" /\ k' = 1 /\ UNCHANGED result
                   ELSE Fail(g.err) /\ UNCHANGED k
    /\ UNCHANGED <<module, pf_meta, args, disk, filetype, ds, attempts, stale, acquired,
                   load, resolverVars, lockVars>>

\* line 37: self.load_pfb_from_meta(var_meta) is called for the next output
LoadOutput ==
    /\ Imported
    /\ pc = "outloop" /\ k <= Len(pf_meta.meta.outputs) /\ load.phase = "none"
    /\ \E r \in {load_pfb_from_meta(disk, pf_meta.meta.outputs[k].meta)} :
           Begin("outputs", r)
    /\ UNCHANGED <<module, pf_meta, args, disk, filetype, metaRead, stale, rIn, lockVars>>

\* the loop over the outputs is exhausted
EndOutputs ==
    /\ Imported
    /\ pc = "outloop" /\ k > Len(pf_meta.meta.outputs)
    /\ pc' = "inputs"
    /\ UNCHANGED <<module, pf_meta, args, disk, filetype, ds, k, result, attempts, metaRead,
                   stale, acquired, load, resolverVars, lockVars>>

\* lines 38-39: if read_inputs, the loop over self.pf_meta['inputs'] starts
EnterInputs ==
    /\ Imported
    /\ pc = "inputs"
    /\ IF ~args.read_inputs
       THEN pc' = "finish" /\ UNCHANGED <<result, k, metaRead>>
       ELSE /\ metaRead' = Append(metaRead, pf_meta)
            /\ LET g == GetGroup(pf_meta, "inputs")
               IN  IF g.ok THEN pc' = "inloop" /\ k' = 1 /\ UNCHANGED result
                   ELSE Fail(g.err) /\ UNCHANGED k
    /\ UNCHANGED <<module, pf_meta, args, disk, filetype, ds, attempts, stale, acquired,
                   load, resolverVars, lockVars>>

\* lines 40-42: the next input; the entry named "configuration" is passed over
LoadInput ==
    /\ Imported
    /\ pc = "inloop" /\ k <= Len(pf_meta.meta.inputs) /\ load.phase = "none"
    /\ IF pf_meta.meta.inputs[k].name = "configuration"
       THEN k' = k + 1 /\ UNCHANGED <<pc, result, ds, attempts, acquired, load, rOut>>
       ELSE \E r \in {load_pfb_from_meta(disk, pf_meta.meta.inputs[k].meta)} :
                Begin("inputs", r)
    /\ UNCHANGED <<module, pf_meta, args, disk, filetype, metaRead, stale, rIn, lockVars>>

\* the loop over the inputs is exhausted
EndInputs ==
    /\ Imported
    /\ pc = "inloop" /\ k > Len(pf_meta.meta.inputs)
    /\ pc' = "finish"
    /\ UNCHANGED <<module, pf_meta, args, disk, filetype, ds, k, result, attempts, metaRead,
                   stale, acquired, load, resolverVars, lockVars>>

\* lines 45-47: self.process_meta is defined nowhere; otherwise ds is returned
Finish ==
    /\ Imported
    /\ pc = "finish"
    /\ IF args.meta_yaml
       THEN Fail(Exc("AttributeError", "object has no attribute 'process_meta'"))
       ELSE pc' = "done" /\ result' = Returned(ds)
    /\ UNCHANGED <<module, pf_meta, args, disk, filetype, ds, k, attempts, metaRead, stale,
                   acquired, load, resolverVars, lockVars>>

\* the caller takes the outcome; the entrypoint object keeps self.pf_meta
Return ==
    /\ Imported
    /\ pc = "done"
    /\ pc' = "idle"
    /\ args' = NoArgs /\ disk' = NoDisk /\ filetype' = "none" /\ ds' = NoDS /\ k' = 0
    /\ result' = NoResult /\ attempts' = <<>> /\ metaRead' = <<>> /\ stale' = Unset
    /\ acquired' = 0
    /\ UNCHANGED <<module, pf_meta, load, resolverVars, lockVars>>

InitEntry ==
    /\ pc = "idle" /\ pf_meta = Unset /\ args = NoArgs /\ disk = NoDisk
    /\ filetype = "none" /\ ds = NoDS /\ k = 0 /\ result = NoResult
    /\ attempts = <<>> /\ metaRead = <<>> /\ stale = Unset /\ acquired = 0
    /\ load = NoLoad

(***************************************************************************)
(* load_pfb_from_meta on its own: the descriptor and the disk are drawn    *)
(* from bounded sets and the function is applied once.                     *)
(***************************************************************************)
Templates == {[base |-> c_field, width |-> 3, suffix |-> c_pfb],
              [base |-> c_runout, width |-> 2, suffix |-> c_pfb],
              [base |-> c_t, width |-> 0, suffix |-> c_pfb]}
TemplateOf(t) == Template(t.base, t.width, t.suffix)
Ranges == {<<a, b, c>> : a \in 0..1, b \in 0..MaxStop, c \in 1..MaxStep}
          \cup {<<a, b>> : a \in 0..1, b \in 0..MaxStop}
          \cup {<<b>> : b \in 0..MaxStop}
SeriesGrids == {g \in Grids : g.ny = 1 /\ g.nz = 1}
NoTemplate == [base |-> <<>>, width |-> 0, suffix |-> <<>>]

ResolverInputs ==
    {[meta |-> VarMeta("pfb", "true", r, TemplateOf(t), u), tmpl |-> t, disk |-> Disk(g, v, NoMeta)] :
        r \in Ranges, t \in Templates, u \in {"m"}, g \in SeriesGrids, v \in Varies}
    \cup {[meta |-> VarMeta("pfb", "true", <<0, 2>>, TemplateOf(t), "absent"), tmpl |-> t,
           disk |-> Disk(BaseGrid, "same", NoMeta)] : t \in Templates}
    \cup {[meta |-> m, tmpl |-> NoTemplate, disk |-> Disk(BaseGrid, "same", NoMeta)] :
            m \in {V_mask, V_slope, V_dem, V_clm, V_config,
                   VarMeta("pfb", "true", <<0, 2>>, n_grid, "m"),
                   VarMeta("pfb", "true", <<0, 2>>, c_pfb, "m"),
                   VarMeta("pfb", "true", <<0, 2, 0>>, Template(c_t, 0, c_pfb), "m")}}

NotResolved == [done |-> FALSE, r |-> Failed(NoExc, <<>>, <<>>, 0, "none")]
DefaultResolverInput == [meta |-> V_mask, tmpl |-> NoTemplate,
                         disk |-> Disk(BaseGrid, "same", NoMeta)]

Resolve ==
    /\ Imported
    /\ pc = "idle" /\ ~rOut.done /\ load.phase = "none"
    /\ \E r \in {load_pfb_from_meta(rIn.disk, rIn.meta)} : Begin("resolver", r)
    /\ UNCHANGED <<module, rIn, pf_meta, args, disk, filetype, metaRead, stale, lockVars>>

(***************************************************************************)
(* ParflowBackendArray, lines 168-213, used by several threads, each with  *)
(* an array of its own.  PARFLOW_LOCK (line 12) is the one lock of the     *)
(* module; NO_LOCK (line 13) is a null context.                            *)
(***************************************************************************)
Threads == 1..NThreads
LockArgs == {"None", "True", "False"}
ArrayShape == <<2, 1, 3>>
Keys == {"all", "first"}
NoArray == [shape |-> <<>>, dtype |-> "none", built |-> "none", lock |-> "none"]
NoValue == [kind |-> "unset", key |-> "none"]

\* ParflowBackendArray(shape=..., lock=...): no file is touched
Construct(t, lock) ==
    /\ Imported
    /\ tpc[t] = "new"
    /\ arr' = [arr EXCEPT ![t] = BackendArrayInit(ArrayShape, lock)]
    /\ ioReads' = [ioReads EXCEPT ![t] = 0]
    /\ calls' = [calls EXCEPT ![t] = 0]
    /\ tpc' = [tpc EXCEPT ![t] = "ready"]
    /\ UNCHANGED <<module, owner, tres, entryVars, resolverVars>>

\* __getitem__ (lines 199-207) reaches _raw_indexing_method, line 210: with self.lock
Enter(t, key) ==
    /\ Imported
    /\ tpc[t] = "ready" /\ calls[t] < MaxCalls
    /\ IF arr[t].lock = "PARFLOW_LOCK" THEN owner = 0 /\ owner' = t
       ELSE UNCHANGED owner
    /\ tpc' = [tpc EXCEPT ![t] = "in"]
    /\ tres' = [tres EXCEPT ![t] = [kind |-> "pending", key |-> key]]
    /\ UNCHANGED <<module, arr, ioReads, calls, entryVars, resolverVars>>

\* line 213: return None; nothing is read
Body(t) ==
    /\ Imported
    /\ tpc[t] = "in"
    /\ tpc' = [tpc EXCEPT ![t] = "leaving"]
    /\ tres' = [tres EXCEPT ![t] = [kind |-> raw_indexing_method(arr[t], tres[t].key),
                                    key |-> tres[t].key]]
    /\ UNCHANGED <<module, owner, arr, ioReads, calls, entryVars, resolverVars>>

\* an exception raised inside the with block (delivered to the thread while there)
BodyRaise(t) ==
    /\ Imported
    /\ tpc[t] = "in"
    /\ tpc' = [tpc EXCEPT ![t] = "leaving"]
    /\ tres' = [tres EXCEPT ![t] = [kind |-> "raise", key |-> tres[t].key]]
    /\ UNCHANGED <<module, owner, arr, ioReads, calls, entryVars, resolverVars>>

\* the with statement's exit, on return and on exception alike
Exit(t) ==
    /\ Imported
    /\ tpc[t] = "leaving"
    /\ owner' = IF arr[t].lock = "PARFLOW_LOCK" THEN 0 ELSE owner
    /\ tpc' = [tpc EXCEPT ![t] = "ready"]
    /\ calls' = [calls EXCEPT ![t] = @ + 1]
    /\ UNCHANGED <<module, arr, ioReads, tres, entryVars, resolverVars>>

InitLock ==
    /\ owner = 0
    /\ tpc = [t \in Threads |-> "new"]
    /\ arr = [t \in Threads |-> NoArray]
    /\ ioReads = [t \in Threads |-> 0]
    /\ calls = [t \in Threads |-> 0]
    /\ tres = [t \in Threads |-> NoValue]

(***************************************************************************)
(* Specifications.  Spec follows the open_dataset calls of one caller on   *)
(* one entrypoint object and ResolverSpec one call of load_pfb_from_meta,  *)
(* both with no other thread at the lock, so the caller never waits there; *)
(* LockSpec has the threads index their arrays while the caller opens a    *)
(* single grid file, so that each of them finds the lock taken by another. *)
(***************************************************************************)
Init ==
    /\ module = "source"
    /\ InitEntry /\ InitLock
    /\ rIn = DefaultResolverInput /\ rOut = NotResolved

Next ==
    \/ \E b \in Builds : ImportModule(b)
    \/ \E src \in Sources : \E d \in DisksFor(src) : \E opts \in Options : Call(src, opts, d)
    \/ LoadGrid
    \/ ReadVersion
    \/ EnterOutputs
    \/ LoadOutput
    \/ EndOutputs
    \/ EnterInputs
    \/ LoadInput
    \/ EndInputs
    \/ Finish
    \/ Return
    \/ AcquireLock
    \/ ReleaseLock

Spec == Init /\ [][Next]_vars

ResolverInit ==
    /\ module = "source"
    /\ InitEntry /\ InitLock
    /\ rIn \in ResolverInputs /\ rOut = NotResolved

ResolverNext ==
    \/ \E b \in Builds : ImportModule(b)
    \/ Resolve
    \/ AcquireLock
    \/ ReleaseLock

ResolverSpec == ResolverInit /\ [][ResolverNext]_vars

LockNext ==
    \/ \E b \in Builds : ImportModule(b)
    \/ \E t \in Threads : \E lock \in LockArgs : Construct(t, lock)
    \/ \E t \in Threads : \E key \in Keys : Enter(t, key)
    \/ \E t \in Threads : Body(t)
    \/ \E t \in Threads : BodyRaise(t)
    \/ \E t \in Threads : Exit(t)
    \/ \E src \in {StrSource(n_grid)} : \E opts \in {DefaultOptions} : Call(src, opts, NoDisk)
    \/ LoadGrid
    \/ AcquireLock
    \/ ReleaseLock
    \/ Return

LockSpec == Init /\ [][LockNext]_vars

(***************************************************************************)
(* Vocabulary of the properties.                                           *)
(***************************************************************************)
InputTypeError == Exc("NotImplementedError", "Was unable to determine input type!")
NotTimeVarying == Exc("NotImplementedError",
                      "Currently only support for reading time-varying data!")
\* the file at the path of the call in progress
SourceFile == ReadFile(disk, args.src.path)
ValidGrid(f) == loadHeader(f) = 0 /\ loadData(f) = 0
\* the call in progress was given a manifest: a mapping, or a path to a JSON object
GivenManifest == \/ args.src.kind = "dict"
                 \/ args.src.kind = "str" /\ SourceFile.kind = "json"
CurrentManifest == IF args.src.kind = "dict" THEN args.src.meta ELSE SourceFile.doc
\* classification raised: open_dataset ended at line 28
ClassificationFailed == pc = "done" /\ filetype = "none"
Names(entries) == [i \in 1..Len(entries) |-> entries[i].name]
NotConfiguration(e) == e.name # "configuration"
\* the requested variables of manifest m, in resolution order
Requested(m) ==
    (IF args.read_outputs THEN m.outputs ELSE <<>>)
    \o (IF args.read_inputs THEN SelectSeq(m.inputs, NotConfiguration) ELSE <<>>)
IsStatic(e) == e.meta.tv # "true"

(***************************************************************************)
(* C1 as stated: classification is a three-way dispatch in which a path    *)
(* is SingleGrid exactly when header and data load both report 0, else     *)
(* Manifest exactly when it parses as a JSON object holding the required   *)
(* key, and else fails with the input-type error; a mapping is Manifest or *)
(* fails; any other input fails with the input-type error.                 *)
(***************************************************************************)
C1_AsStated ==
    pc # "idle" =>
        /\ filetype \in {"pfb", "pfmetadata", "none"}
        /\ (filetype = "none") = ClassificationFailed
        /\ args.src.kind = "str" =>
              /\ (filetype = "pfb") = ValidGrid(SourceFile)
              /\ ~ValidGrid(SourceFile) =>
                    /\ (filetype = "pfmetadata") =
                          (SourceFile.kind = "json" /\ "parflow" \in SourceFile.doc.keys)
                    /\ filetype = "none" => result.err = InputTypeError
        /\ args.src.kind = "dict" => filetype \in {"pfmetadata", "none"}
        /\ args.src.kind = "other" => filetype = "none" /\ result.err = InputTypeError

(***************************************************************************)
(* C1 amended: the same dispatch, but a path that is neither a valid grid  *)
(* nor a manifest fails with the error of the step that failed (the open   *)
(* error for a missing file, the parse error for a file that is no JSON    *)
(* document, an attribute error for a JSON document that is no object, the *)
(* missing-key assertion error for a JSON object without the key), never   *)
(* with the input-type error; a mapping without the key fails with the     *)
(* missing-key assertion error; only an input that is neither a string nor *)
(* a mapping fails with the input-type error.  A failed classification     *)
(* returns nothing and resolves no variable.                               *)
(***************************************************************************)
C1_Dispatch ==
    pc # "idle" =>
        /\ filetype \in {"pfb", "pfmetadata", "none"}
        /\ (filetype = "none") = ClassificationFailed
        /\ ClassificationFailed => result.status = "raise" /\ attempts = <<>>
        /\ args.src.kind = "str" =>
              /\ (filetype = "pfb") = ValidGrid(SourceFile)
              /\ ~ValidGrid(SourceFile) =>
                    /\ (filetype = "pfmetadata") =
                          (SourceFile.kind = "json" /\ "parflow" \in SourceFile.doc.keys)
                    /\ filetype = "none" =>
                          /\ result.err # InputTypeError
                          /\ result.err.cls =
                                CASE SourceFile.kind = "nofile" -> "FileNotFoundError"
                                  [] SourceFile.kind = "jsonlist" -> "AttributeError"
                                  [] SourceFile.kind = "json" -> "AssertionError"
                                  [] OTHER -> "ValueError"
        /\ args.src.kind = "dict" =>
              /\ (filetype = "pfmetadata") = ("parflow" \in args.src.meta.keys)
              /\ filetype = "none" => result.err = MissingKey
        /\ args.src.kind = "other" => filetype = "none" /\ result.err = InputTypeError

\* a path to a file that is neither a grid nor JSON was classified: the parse error
C1_Witness ==
    /\ ClassificationFailed
    /\ args.src = StrSource(n_text)
    /\ result.err.cls = "ValueError"

(***************************************************************************)
(* C2 as stated: for a valid single grid file of any dimension order and   *)
(* counts, open_dataset (called with its default meta_yaml) returns a      *)
(* dataset with exactly one variable, whose dimensions are in the file's   *)
(* order, whose length along each dimension is that dimension's count, and *)
(* whose coordinate vectors for x, y, z have lengths nx, ny, nz.           *)
(***************************************************************************)
C2_AsStated ==
    (pc = "done" /\ args.src.kind = "str" /\ ValidGrid(SourceFile) /\ ~args.meta_yaml) =>
        /\ result.status = "ok"
        /\ Len(result.ds.vars) = 1
        /\ LET da == result.ds.vars[1].da
               h == SourceFile.hdr
           IN  /\ da.dims = h.order
               /\ Len(da.shape) = 3
               /\ \A i \in 1..3 : da.shape[i] = getCount(h, h.order[i])
               /\ Len(da.coords["x"]) = h.nx
               /\ Len(da.coords["y"]) = h.ny
               /\ Len(da.coords["z"]) = h.nz

(***************************************************************************)
(* Vocabulary of the resolver properties.                                  *)
(***************************************************************************)
\* the descriptor is time-varying pfb with a template <base>.<pad>.<suffix>
SeriesCase == rOut.done /\ rIn.tmpl # NoTemplate
              /\ rIn.meta.type = "pfb" /\ rIn.meta.tv = "true"
RangeStart == IF Len(rIn.meta["range"]) >= 2 THEN rIn.meta["range"][1] ELSE 0
RangeStop == IF Len(rIn.meta["range"]) >= 2 THEN rIn.meta["range"][2]
             ELSE rIn.meta["range"][1]
RangeStep == IF Len(rIn.meta["range"]) >= 3 THEN rIn.meta["range"][3] ELSE 1
\* the time indices of the half-open range
TimeIndices == {i \in RangeStart..(RangeStop - 1) : (i - RangeStart) % RangeStep = 0}
\* the characters of file name f between <base>. and .<suffix>
PadPart(f, t) == SubSeq(f, Len(t.base) + 2, Len(f) - Len(t.suffix) - 1)
\* f is <base>.<digits>.<suffix> with the digits padded with zeros to the pad's width
RenderedFrom(f, t) ==
    /\ Len(f) >= Len(t.base) + Len(t.suffix) + 3
    /\ SubSeq(f, 1, Len(t.base) + 1) = t.base \o <<".">>
    /\ SubSeq(f, Len(f) - Len(t.suffix), Len(f)) = <<".">> \o t.suffix
    /\ AllDigits(PadPart(f, t))
    /\ Len(PadPart(f, t)) >= t.width
    /\ Len(PadPart(f, t)) > t.width /\ Len(PadPart(f, t)) > 1 => PadPart(f, t)[1] # "0"
FieldFile(d) == c_field \o <<".", "0", "0", d, ".">> \o c_pfb

\* every file name rendered for the variable names a valid grid file of the disk
AllRenderedValid ==
    \A i \in 1..Len(rOut.r.files) : ValidGrid(ReadFile(rIn.disk, rOut.r.files[i]))
\* two grid files disagree on the spatial shape or on the coordinate values
Disagree(f, g) == \/ viewDataArray(f).shape # viewDataArray(g).shape
                  \/ decode_coords(f) # decode_coords(g)

(***************************************************************************)
(* C3 as stated: for a time-varying variable with range [start, stop,      *)
(* step) (step at least 1, at least one index) and template                *)
(* <base>.<pad>.<suffix> whose files are all valid grids,                  *)
(* load_pfb_from_meta renders exactly one file name per time index of the  *)
(* range, each by putting the zero-padded index in place of the pad token, *)
(* in ascending order of the time index; it opens all of them in that      *)
(* order and returns an array with a leading axis "time" as long as the    *)
(* number of indices.  Range [0, 5, 1) with field.%03d.pfb gives           *)
(* field.000.pfb to field.004.pfb and a leading axis of length 5.          *)
(***************************************************************************)
C3_AsStated ==
    (SeriesCase /\ Cardinality(TimeIndices) >= 1 /\ AllRenderedValid) =>
        LET r == rOut.r
            t == rIn.tmpl
            n == Cardinality(TimeIndices)
        IN  /\ Len(r.files) = n
            /\ \A j \in 1..n :
                  /\ RenderedFrom(r.files[j], t)
                  /\ ParseNat(PadPart(r.files[j], t)) \in TimeIndices
            /\ \A i \in 1..n : \A j \in 1..n :
                  i < j => ParseNat(PadPart(r.files[i], t)) < ParseNat(PadPart(r.files[j], t))
            /\ (rIn.meta["range"] = <<0, 5, 1>> /\ t.base = c_field) =>
                  r.files = <<FieldFile("0"), FieldFile("1"), FieldFile("2"),
                              FieldFile("3"), FieldFile("4")>>
            /\ r.opened = r.files
            /\ r.ok
            /\ r.val.dims[1] = "time"
            /\ r.val.shape[1] = n
            /\ Len(r.val.shape) = 4

(***************************************************************************)
(* C4 as stated: when two of the per-timestep grids of one variable        *)
(* disagree on spatial shape or on coordinate values, the concatenation    *)
(* along the time axis fails: load_pfb_from_meta returns no array and the  *)
(* step that raises is the concatenation of the loaded timesteps.          *)
(***************************************************************************)
C4_AsStated ==
    (SeriesCase /\ AllRenderedValid
     /\ \E i \in 1..Len(rOut.r.files) : \E j \in 1..Len(rOut.r.files) :
            Disagree(ReadFile(rIn.disk, rOut.r.files[i]),
                     ReadFile(rIn.disk, rOut.r.files[j])))
    => (~rOut.r.ok /\ rOut.r.stage = "concat")

(***************************************************************************)
(* Vocabulary of the lazy array properties.                                *)
(***************************************************************************)
DefaultLock(t) == arr[t].built \in {"None", "True"}
InSection(t) == tpc[t] \in {"in", "leaving"}
\* the first indexing call on the array of t has returned a value
FirstCallReturned(t) == calls[t] = 1 /\ tpc[t] = "ready" /\ tres[t].kind # "raise"
\* the shape the key selects from a materialized array of this shape
Selected(shape, key) == IF key = "first" THEN Tail(shape) ELSE shape

(***************************************************************************)
(* C5 as stated: no data read happens between the construction of a lazy   *)
(* grid array and its first indexing call; the first indexing call makes   *)
(* exactly one read attempt and returns a sub-array with the shape and the *)
(* dtype the same index would yield on a materialized array of the         *)
(* declared shape.                                                         *)
(***************************************************************************)
C5_AsStated ==
    \A t \in Threads :
        /\ (tpc[t] = "ready" /\ calls[t] = 0) => ioReads[t] = 0
        /\ FirstCallReturned(t) =>
              /\ ioReads[t] = 1
              /\ tres[t].kind = "array"
              /\ tres[t].shape = Selected(arr[t].shape, tres[t].key)
              /\ tres[t].dtype = arr[t].dtype

(***************************************************************************)
(* C6 as stated: whenever open_dataset comes to resolve a requested        *)
(* variable whose time-varying flag is false or absent, it fails with the  *)
(* not-implemented error.                                                  *)
(***************************************************************************)
C6_AsStated ==
    (pc = "done" /\ GivenManifest
     /\ \E i \in 1..Len(attempts) : IsStatic(Requested(CurrentManifest)[i]))
    => (result.status = "raise" /\ result.err = NotTimeVarying)

(***************************************************************************)
(* C6 amended: for every such manifest open_dataset returns no dataset: it *)
(* fails.  The failure is the not-implemented error whenever the variable  *)
(* whose resolution fails is one that is not time-varying and has storage  *)
(* kind pfb; a storage kind other than pfb fails with the assertion error  *)
(* of the kind check instead, and a failure of the classification, of the  *)
(* version read, of a group lookup or of an earlier variable is the one    *)
(* raised when it comes first.                                             *)
(***************************************************************************)
C6_NeverSkipped ==
    (pc = "done" /\ GivenManifest
     /\ \E i \in 1..Len(Requested(CurrentManifest)) : IsStatic(Requested(CurrentManifest)[i]))
    => /\ result.status = "raise"
       /\ result.ds = NoDS
       /\ \A i \in 1..Len(attempts) :
             (~attempts[i].ok /\ IsStatic(Requested(CurrentManifest)[i])) =>
                 /\ attempts[i].name = Requested(CurrentManifest)[i].name
                 /\ Requested(CurrentManifest)[i].meta.type = "pfb"
                        => result.err = NotTimeVarying
                 /\ Requested(CurrentManifest)[i].meta.type \notin {"pfb", "absent"}
                        => result.err = Exc("AssertionError", "Can't load non-pfb data!")

\* the first requested variable, of kind pfb and not time-varying, failed to resolve
C6_Witness ==
    /\ pc = "done" /\ GivenManifest
    /\ Len(attempts) = 1 /\ ~attempts[1].ok
    /\ IsStatic(Requested(CurrentManifest)[1])
    /\ Requested(CurrentManifest)[1].meta.type = "pfb"
    /\ result.status = "raise" /\ result.err = NotTimeVarying

(***************************************************************************)
(* C7 as stated: a manifest (mapping or path) without the top-level        *)
(* provenance key makes open_dataset fail with the schema error before any *)
(* variable is resolved, and the same schema error is raised when the      *)
(* provenance block has no build/version entry.                            *)
(***************************************************************************)
NoProvenance(m) == "parflow" \notin m.keys
NoVersion(m) == "parflow" \in m.keys /\ m.build \in {"absent", "noversion"}

C7_AsStated ==
    (pc = "done" /\ GivenManifest
     /\ (NoProvenance(CurrentManifest) \/ NoVersion(CurrentManifest)))
    => (result.status = "raise" /\ result.err = MissingKey /\ attempts = <<>>)

(***************************************************************************)
(* C7 amended: such a manifest makes open_dataset fail before any variable *)
(* is resolved and no dataset is returned.  Without the top-level key the  *)
(* failure is the missing-key assertion error of the classification; with  *)
(* the provenance block present and no build or version entry it is a key  *)
(* lookup error (KeyError) of the version read, not that assertion error.  *)
(***************************************************************************)
C7_Provenance ==
    (pc = "done" /\ GivenManifest
     /\ (NoProvenance(CurrentManifest) \/ NoVersion(CurrentManifest)))
    => /\ result.status = "raise" /\ result.ds = NoDS
       /\ attempts = <<>>
       /\ NoProvenance(CurrentManifest) => result.err = MissingKey /\ filetype = "none"
       /\ NoVersion(CurrentManifest) =>
             /\ filetype = "pfmetadata"
             /\ result.err = Exc("KeyError", IF CurrentManifest.build = "absent"
                                             THEN "build" ELSE "version")

\* a manifest whose provenance block has a build entry without a version was opened
C7_Witness ==
    /\ pc = "done" /\ GivenManifest
    /\ CurrentManifest.build = "noversion"
    /\ result.err = Exc("KeyError", "version")
    /\ Len(Requested(CurrentManifest)) >= 1

(***************************************************************************)
(* C8: a dataset build is all-or-nothing.  The variables are resolved in   *)
(* the order requested, each once; the first failure ends the call, is the *)
(* error raised to the caller, and no dataset is returned; a returned      *)
(* dataset holds every requested variable under its manifest name.         *)
(***************************************************************************)
C8_AllOrNothing ==
    (pc = "done" /\ filetype = "pfmetadata") =>
        LET req == Names(Requested(CurrentManifest))
            n == Len(attempts)
        IN  /\ n <= Len(req)
            /\ \A i \in 1..n : attempts[i].name = req[i]
            /\ \A i \in 1..n : ~attempts[i].ok =>
                  /\ i = n
                  /\ result.status = "raise"
                  /\ result.err = attempts[i].err
            /\ result.status = "raise" => result.ds = NoDS
            /\ result.status = "ok" =>
                  /\ n = Len(req)
                  /\ \A i \in 1..n : attempts[i].ok
                  /\ VarNames(result.ds) = {req[i] : i \in 1..n}
                  /\ result.ds.attrs = CurrentManifest.build

\* a variable failed to resolve while further requested variables were still to come
C8_Witness ==
    /\ pc = "done" /\ filetype = "pfmetadata"
    /\ Len(attempts) >= 1 /\ ~attempts[Len(attempts)].ok
    /\ Len(Requested(CurrentManifest)) > Len(attempts)
    /\ result.status = "raise" /\ result.err = attempts[Len(attempts)].err
    /\ result.ds = NoDS

(***************************************************************************)
(* C9: the arrays built with the default lock setting share PARFLOW_LOCK,  *)
(* the array a load realizes at line 113 among them: at most one of their  *)
(* callers is inside the read section; the lock is held only by a caller   *)
(* inside the section, so it is free after every call, returned or failed, *)
(* and a caller that waits can enter as soon as no one is inside.  An      *)
(* array built with lock=False never holds the lock and can always enter.  *)
(***************************************************************************)
C9_Lock ==
    /\ Cardinality({t \in Threads : DefaultLock(t) /\ InSection(t)})
          + (IF load.phase = "inside" THEN 1 ELSE 0) <= 1
    /\ \A t \in Threads : (DefaultLock(t) /\ InSection(t)) => owner = t
    /\ load.phase = "inside" => owner = Caller
    /\ owner \in Threads => (DefaultLock(owner) /\ InSection(owner))
    /\ owner \notin Threads => (owner = 0 \/ (owner = Caller /\ load.phase = "inside"))
    /\ \A t \in Threads : (tpc[t] = "ready" /\ calls[t] < MaxCalls) =>
          /\ DefaultLock(t) => ((ENABLED Enter(t, "all")) = (owner = 0))
          /\ arr[t].built = "False" => ENABLED Enter(t, "all")
    /\ \A t \in Threads : InSection(t) => ENABLED (Body(t) \/ Exit(t))
    /\ load.phase = "wait" => ((ENABLED AcquireLock) = (owner = 0))
    /\ load.phase = "inside" => ENABLED ReleaseLock

\* a call on a default-lock array failed and left; another default-lock caller is
\* inside, and the open_dataset call waits at line 210 for it to leave
C9_Witness ==
    \E t \in Threads : \E u \in Threads :
        /\ t # u /\ DefaultLock(t) /\ DefaultLock(u)
        /\ tpc[t] = "ready" /\ calls[t] >= 1 /\ tres[t].kind = "raise"
        /\ tpc[u] = "in" /\ owner = u
        /\ load.phase = "wait" /\ load.caller = "grid" /\ OpenedSoFar = <<n_grid>>

(***************************************************************************)
(* C10: self.pf_meta never leaks between calls.  Every read of the stored  *)
(* manifest made by a call on the manifest branch yields the manifest      *)
(* classified in that call, whatever an earlier call left there, and the   *)
(* version attribute of the dataset is that manifest's; a call classified  *)
(* as a single grid reads no stored manifest.                              *)
(***************************************************************************)
C10_NoLeak ==
    /\ filetype = "pfmetadata" =>
          /\ \A i \in 1..Len(metaRead) :
                metaRead[i] = [set |-> TRUE, meta |-> CurrentManifest]
          /\ pc \in {"outputs", "outloop", "inputs", "inloop", "finish"} =>
                ds.attrs = CurrentManifest.build
          /\ pc \in {"outloop", "inloop"} => Len(metaRead) >= 2
    /\ filetype = "pfb" => metaRead = <<>>
    /\ filetype = "none" => metaRead = <<>>

\* a manifest call that follows a call which stored another manifest
C10_Witness ==
    /\ filetype = "pfmetadata" /\ pc = "inloop"
    /\ stale.set /\ stale.meta # CurrentManifest
    /\ "parflow" \in stale.meta.keys
    /\ Len(metaRead) = 3

====
